---- MODULE Spec2Model ----
(***************************************************************************)
(* A model of the p2p-mls node: the session state (src/src/node.rs), the   *)
(* command line helper (src/src/cli.rs) and the three long-lived tasks of  *)
(* src/src/main.rs (network event loop, inbound dispatch task, command     *)
(* loop) of every node, connected by a floodsub broadcast transport.       *)
(*                                                                         *)
(* The MLS provider (openmls) and the transport (libp2p) are libraries;    *)
(* they are modelled at the places the source calls them:                  *)
(*  - a group handle is [inst, epoch, members]: the group instance (named  *)
(*    after the node whose create made it), its epoch and its member set;  *)
(*  - MlsGroup::new and MlsGroup::new_from_welcome take the node's key     *)
(*    package bundle out of the key store, so each succeeds at most once   *)
(*    per node (node.rs:150 records the resulting error);                  *)
(*  - a protocol message validates against a group exactly when it was     *)
(*    made in the same group instance at the same epoch; every other       *)
(*    message is rejected by MlsGroup::parse_message (handshake messages   *)
(*    are encrypted like application messages, so foreign ones do not      *)
(*    decrypt), and a message that parses also verifies;                   *)
(*  - floodsub publishes to the peers of the partial view, not to the      *)
(*    publishing node itself; a published message reaches the event loops  *)
(*    of those peers in the order of publication.                          *)
(***************************************************************************)
EXTENDS Integers, Sequences, FiniteSets, TLC

VARIABLES
    node,       \* node[n]: the Node struct of n (node.rs:22-28)
    lock,       \* lock[n]: holder of the Mutex around node[n] (main.rs:52)
    pcD,        \* pcD[n]: position of the inbound dispatch task (main.rs:54-95)
    pcC,        \* pcC[n]: position of the command loop (main.rs:99-109)
    cur,        \* cur[n]: the (peer, message) the dispatch task took (main.rs:58)
    line,       \* line[n]: the input line the command loop took (main.rs:99)
    outq,       \* outq[n]: the out_msg channel (main.rs:43)
    inq,        \* inq[n]: the in_msg channel (main.rs:44)
    view,       \* view[n]: floodsub partial view of n (main.rs:146, 152)
    proc,       \* proc[n]: which tasks of the process still run
    typed,      \* number of lines the users have entered so far
    expired,    \* number of peer-expired events reported so far
    shown,      \* shown[n]: the (peer, text) pairs n printed (main.rs:78)
    lastD,      \* lastD[n]: outcome of the dispatch task's last blob
    lastC,      \* lastC[n]: outcome of the command loop's last line
    test        \* the locals of tests::smoke_test (node.rs:141-158)

vars == <<node, lock, pcD, pcC, cur, line, outq, inq, view, proc,
          typed, expired, shown, lastD, lastC, test>>

----------------------------------------------------------------------------
(* Bounds of the model *)

\* events of the environment, in total over all nodes: lines the users
\* enter and peer-expired lists the discovery service reports
MaxEvents == 3

Nodes == {"A", "B", "C"}

NoNode == "-"

----------------------------------------------------------------------------
(* Byte blobs.  One record shape for everything that travels:              *)
(* kind "kp" (serialized key package of who), "welcome" (for who, into     *)
(* inst at epoch with members), "commit" (of inst at epoch, adding who),   *)
(* "app" (of inst at epoch, from who, carrying text), "raw" (other bytes). *)

Blob(k, i, e, w, m, t) ==
    [kind |-> k, inst |-> i, epoch |-> e, who |-> w, members |-> m, text |-> t]

\* The formats the bytes of b deserialize as.  What the nodes themselves
\* produce has one format or none; bytes of another origin may deserialize
\* as more than one (kinds "kp+app", "kp+welcome", "app+welcome", "all").
Formats(b) ==
    CASE b.kind = "kp+app" -> {"kp", "app"}
      [] b.kind = "kp+welcome" -> {"kp", "welcome"}
      [] b.kind = "app+welcome" -> {"app", "welcome"}
      [] b.kind = "all" -> {"kp", "app", "welcome"}
      [] b.kind = "raw" -> {}
      [] OTHER -> {b.kind}

\* Vec::new(): the empty byte vector (cli.rs:19)
EmptyMsg == Blob("raw", NoNode, 0, NoNode, {}, <<>>)

NoGroup == [inst |-> NoNode, epoch |-> 0, members |-> {}]

----------------------------------------------------------------------------
(* Session state: struct Node and its methods (src/src/node.rs).           *)
(* mls_group = NoGroup stands for None.  key_store tells whether the       *)
(* backend's key store still holds the bundle of identity.key_package.     *)

Default(n) ==
    [mls_group |-> NoGroup, is_group_leader |-> FALSE, identity |-> n,
     key_store |-> TRUE]

HasGroup(s) == s.mls_group # NoGroup

\* MlsGroup::new making every group part of one group instance.
generate_mls_group_one_instance(s) ==
    IF s.key_store
    THEN [ok |-> TRUE,
          group |-> [inst |-> "A", epoch |-> 0, members |-> {s.identity}]]
    ELSE [ok |-> FALSE, group |-> NoGroup]

\* crypto.rs:66-81: MlsGroup::new reads the bundle of the key package from
\* the key store and removes it; .expect panics when it is not there.
generate_mls_group(s) ==
    IF s.key_store
    THEN [ok |-> TRUE,
          group |-> [inst |-> s.identity, epoch |-> 0, members |-> {s.identity}]]
    ELSE [ok |-> FALSE, group |-> NoGroup]

\* join_new_group with the group left unassigned.
join_new_group_flag_only(s) ==
    [node |-> [s EXCEPT !.is_group_leader = TRUE], panic |-> FALSE]

\* node.rs:53-59
join_new_group(s) ==
    LET g == generate_mls_group(s) IN
    IF g.ok
    THEN [node |-> [s EXCEPT !.mls_group = g.group, !.is_group_leader = TRUE,
                             !.key_store = FALSE],
          panic |-> FALSE]
    ELSE [node |-> s, panic |-> TRUE]

\* is_group_leader answering the opposite of the flag.
is_group_leader_negated(s) == ~s.is_group_leader

\* is_group_leader answering true for every node.
is_group_leader_always(s) == TRUE

\* node.rs:61-63
is_group_leader(s) == s.is_group_leader

\* The outcomes add_members can have for key package kp on the group of s:
\* admitting a new member succeeds; for an identity that is already a member
\* the provider either admits it again or reports an error.
AddOutcomes(s, kp) ==
    IF kp.who \in s.mls_group.members THEN {TRUE, FALSE} ELSE {TRUE}

\* add_member_to_group without merge_pending_commit: the leader's group
\* stays at its epoch.
add_member_to_group_no_merge(s, kp, ok) ==
    IF ~HasGroup(s) \/ ~ok
    THEN [node |-> s, panic |-> TRUE, m_out |-> EmptyMsg, welcome |-> EmptyMsg]
    ELSE LET g == s.mls_group IN
         [node |-> s,
          panic |-> FALSE,
          m_out |-> Blob("commit", g.inst, g.epoch, kp.who, {}, <<>>),
          welcome |-> Blob("welcome", g.inst, g.epoch + 1, kp.who,
                           g.members \cup {kp.who}, <<>>)]

\* add_member_to_group returning the pair in the other order.
add_member_to_group_swapped(s, kp, ok) ==
    IF ~HasGroup(s) \/ ~ok
    THEN [node |-> s, panic |-> TRUE, m_out |-> EmptyMsg, welcome |-> EmptyMsg]
    ELSE LET g  == s.mls_group
             g2 == [g EXCEPT !.epoch = g.epoch + 1,
                             !.members = g.members \cup {kp.who}]
         IN [node |-> [s EXCEPT !.mls_group = g2],
             panic |-> FALSE,
             m_out |-> Blob("welcome", g2.inst, g2.epoch, kp.who, g2.members, <<>>),
             welcome |-> Blob("commit", g.inst, g.epoch, kp.who, {}, <<>>)]

\* node.rs:65-74: add_members then merge_pending_commit; every failure is
\* an expect, i.e. a panic.  ok is the provider's outcome for add_members.
add_member_to_group(s, kp, ok) ==
    IF ~HasGroup(s) \/ ~ok
    THEN [node |-> s, panic |-> TRUE, m_out |-> EmptyMsg, welcome |-> EmptyMsg]
    ELSE LET g  == s.mls_group
             g2 == [g EXCEPT !.epoch = g.epoch + 1,
                             !.members = g.members \cup {kp.who}]
         IN [node |-> [s EXCEPT !.mls_group = g2],
             panic |-> FALSE,
             m_out |-> Blob("commit", g.inst, g.epoch, kp.who, {}, <<>>),
             welcome |-> Blob("welcome", g2.inst, g2.epoch, kp.who, g2.members, <<>>)]

\* new_from_welcome succeeding whatever the key store holds.
generate_mls_group_from_welcome_any_time(s, welcome) ==
    IF welcome.who = s.identity
    THEN [ok |-> TRUE,
          group |-> [inst |-> welcome.inst, epoch |-> welcome.epoch,
                     members |-> welcome.members]]
    ELSE [ok |-> FALSE, group |-> NoGroup]

\* crypto.rs:54-64: new_from_welcome finds the bundle of the key package the
\* welcome is addressed to in the key store and removes it.
generate_mls_group_from_welcome(s, welcome) ==
    IF welcome.who = s.identity /\ s.key_store
    THEN [ok |-> TRUE,
          group |-> [inst |-> welcome.inst, epoch |-> welcome.epoch,
                     members |-> welcome.members]]
    ELSE [ok |-> FALSE, group |-> NoGroup]

\* join_existing_group clearing the flag before the fallible call.
join_existing_group_flag_first(s, welcome) ==
    LET g == generate_mls_group_from_welcome(s, welcome) IN
    IF g.ok
    THEN [node |-> [s EXCEPT !.mls_group = g.group, !.is_group_leader = FALSE,
                             !.key_store = FALSE],
          res |-> "Ok"]
    ELSE [node |-> [s EXCEPT !.is_group_leader = FALSE], res |-> "Err"]

\* join_existing_group setting the flag as join_new_group does.
join_existing_group_as_leader(s, welcome) ==
    LET g == generate_mls_group_from_welcome(s, welcome) IN
    IF g.ok
    THEN [node |-> [s EXCEPT !.mls_group = g.group, !.is_group_leader = TRUE,
                             !.key_store = FALSE],
          res |-> "Ok"]
    ELSE [node |-> s, res |-> "Err"]

\* node.rs:76-80: the ? returns before either field is assigned.
join_existing_group(s, welcome) ==
    LET g == generate_mls_group_from_welcome(s, welcome) IN
    IF g.ok
    THEN [node |-> [s EXCEPT !.mls_group = g.group, !.is_group_leader = FALSE,
                             !.key_store = FALSE],
          res |-> "Ok"]
    ELSE [node |-> s, res |-> "Err"]

\* create_message without the check for a group.
create_message_unchecked(s, msg) ==
    [res |-> "Ok",
     out |-> Blob("app", s.mls_group.inst, s.mls_group.epoch, s.identity, {}, msg)]

\* node.rs:82-89
create_message(s, msg) ==
    IF ~HasGroup(s)
    THEN [res |-> "Err", out |-> EmptyMsg]
    ELSE [res |-> "Ok",
          out |-> Blob("app", s.mls_group.inst, s.mls_group.epoch, s.identity,
                       {}, msg)]

\* A key package that depends on the group the node is in.
get_key_package_of_group(s) ==
    Blob("kp", s.mls_group.inst, s.mls_group.epoch, s.identity, {}, <<>>)

\* node.rs:91-93
get_key_package(s) == Blob("kp", NoNode, 0, s.identity, {}, <<>>)

\* Validation that does not compare the epochs.
Validates_any_epoch(g, m) == m.inst = g.inst

\* MlsGroup::parse_message (node.rs:103-107): the message validates against
\* the group when it is of the same group instance and epoch.
Validates(g, m) == m.inst = g.inst /\ m.epoch = g.epoch

\* parse_message that leaves a staged commit unmerged.
parse_message_commit_unmerged(s, m) ==
    IF ~HasGroup(s) THEN [node |-> s, res |-> "Ok", val |-> <<>>]
    ELSE IF ~Validates(s.mls_group, m) THEN [node |-> s, res |-> "Err", val |-> <<>>]
    ELSE IF "app" \in Formats(m) THEN [node |-> s, res |-> "Ok", val |-> <<m.text>>]
    ELSE [node |-> s, res |-> "Ok", val |-> <<>>]

\* parse_message without the early return for a node with no group.
parse_message_no_early_return(s, m) ==
    IF ~Validates(s.mls_group, m) THEN [node |-> s, res |-> "Err", val |-> <<>>]
    ELSE IF m.kind = "app" THEN [node |-> s, res |-> "Ok", val |-> <<m.text>>]
    ELSE LET g == s.mls_group IN
         [node |-> [s EXCEPT !.mls_group =
                        [g EXCEPT !.epoch = g.epoch + 1,
                                  !.members = g.members \cup {m.who}]],
          res |-> "Ok", val |-> <<>>]

\* node.rs:99-133.  res "Ok" with val <<text>> is Ok(Some(text)), with
\* val <<>> is Ok(None).
parse_message(s, m) ==
    IF ~HasGroup(s) THEN [node |-> s, res |-> "Ok", val |-> <<>>]
    ELSE IF ~Validates(s.mls_group, m) THEN [node |-> s, res |-> "Err", val |-> <<>>]
    ELSE IF "app" \in Formats(m) THEN [node |-> s, res |-> "Ok", val |-> <<m.text>>]
    ELSE LET g == s.mls_group IN
         [node |-> [s EXCEPT !.mls_group =
                        [g EXCEPT !.epoch = g.epoch + 1,
                                  !.members = g.members \cup {m.who}]],
          res |-> "Ok", val |-> <<>>]

----------------------------------------------------------------------------
(* Command line helper (src/src/cli.rs).  A line is a sequence of          *)
(* characters; a word is written as one character and " " is the space.    *)

\* line.split(' ') (cli.rs:18): the fields between the spaces.
RECURSIVE Split(_)
Split(l) ==
    IF l = <<>> THEN << <<>> >>
    ELSE LET r == Split(Tail(l)) IN
         IF Head(l) = " " THEN << <<>> >> \o r
         ELSE << <<Head(l)>> \o Head(r) >> \o Tail(r)

\* Docopt::new(USAGE).argv(..).parse() (cli.rs:8-12, 18): argv drops the
\* program name; what is left must be `create`, `join` or `send <message>`.
DocoptParse(argv) ==
    LET args == Tail(argv) IN
    IF args = << <<"create">> >>
    THEN [ok |-> TRUE, create |-> TRUE, join |-> FALSE, message |-> <<>>]
    ELSE IF args = << <<"join">> >>
    THEN [ok |-> TRUE, create |-> FALSE, join |-> TRUE, message |-> <<>>]
    ELSE IF Len(args) = 2 /\ args[1] = <<"send">>
    THEN [ok |-> TRUE, create |-> FALSE, join |-> FALSE, message |-> args[2]]
    ELSE [ok |-> FALSE, create |-> FALSE, join |-> FALSE, message |-> <<>>]

\* cli.rs:17-45
parse_stdin(s, l) ==
    LET args == DocoptParse(Split(l)) IN
    IF ~args.ok
    THEN [node |-> s, res |-> "Ok", msg |-> EmptyMsg, panic |-> FALSE]
    ELSE IF args.create
    THEN LET j == join_new_group(s) IN
         [node |-> j.node, res |-> "Ok", msg |-> EmptyMsg, panic |-> j.panic]
    ELSE IF args.join
    THEN [node |-> s, res |-> "Ok", msg |-> get_key_package(s), panic |-> FALSE]
    ELSE IF args.message # <<>>
    THEN LET c == create_message(s, args.message) IN
         [node |-> s, res |-> c.res, msg |-> c.out, panic |-> FALSE]
    ELSE [node |-> s, res |-> "Ok", msg |-> EmptyMsg, panic |-> FALSE]

\* The texts of the model: one word, and two words with a space between.
Texts == { <<"hi">>, <<"hi", " ", "bob">> }

LineCreate == <<"node", " ", "create">>

LineJoin == <<"node", " ", "join">>

LineSend(t) == <<"node", " ", "send", " ">> \o t

\* What the users enter.
UserLines == {LineCreate, LineJoin, LineSend(<<"hi">>)}

NoLine == <<>>

----------------------------------------------------------------------------
(* The tasks of main (src/src/main.rs) *)

NoItem == <<NoNode, EmptyMsg>>

\* The test is not running.
NoTest == [pc |-> "off", alice |-> NoNode, bob |-> NoNode, text |-> <<>>,
           other |-> "none", welcome |-> EmptyMsg, commit |-> EmptyMsg,
           msg_out |-> EmptyMsg, res |-> "none", msg |-> <<>>]

Init ==
    /\ node = [n \in Nodes |-> Default(n)]
    /\ lock = [n \in Nodes |-> "free"]
    /\ pcD = [n \in Nodes |-> "idle"]
    /\ pcC = [n \in Nodes |-> "idle"]
    /\ cur = [n \in Nodes |-> NoItem]
    /\ line = [n \in Nodes |-> NoLine]
    /\ outq = [n \in Nodes |-> <<>>]
    /\ inq = [n \in Nodes |-> <<>>]
    /\ view = [n \in Nodes |-> {}]
    /\ proc = [n \in Nodes |-> "up"]
    /\ typed = 0
    /\ expired = 0
    /\ shown = [n \in Nodes |-> {}]
    /\ lastD = [n \in Nodes |-> "none"]
    /\ lastC = [n \in Nodes |-> "none"]
    /\ test = NoTest

Running(n) == proc[n] # "down"

\* A guard that is not dropped at the end of the loop body.
guard_kept(n) == lock

\* The MutexGuard taken at main.rs:59 or main.rs:100 goes out of scope at
\* the end of the loop body (main.rs:94, 108), also when the body panics.
guard_dropped(n) == [lock EXCEPT ![n] = "free"]

\* A lock() that the guard of the dispatch task does not hold back.
lock_before_dispatch_unlocks(n) == lock[n] # "cmd"

\* A lock() that completes whoever holds the Mutex.
lock_without_waiting(n) == TRUE

\* Mutex::lock().await (main.rs:59, 100) completes when no guard of the
\* Mutex around the node is alive.
lock_acquired(n) == lock[n] = "free"

(* ---- command loop, main.rs:97-109 ---- *)

\* main.rs:99-100: stdin.next().await yields the next line the user entered
\* and arc_node.lock().await gives the loop the session lock.
CmdBegin(n, l) ==
    /\ Running(n)
    /\ pcC[n] = "idle"
    /\ typed + expired < MaxEvents
    /\ lock_acquired(n)
    /\ lock' = [lock EXCEPT ![n] = "cmd"]
    /\ pcC' = [pcC EXCEPT ![n] = "locked"]
    /\ line' = [line EXCEPT ![n] = l]
    /\ typed' = typed + 1
    /\ UNCHANGED <<node, pcD, cur, outq, inq, view, proc, expired, shown,
                   lastD, lastC, test>>

\* main.rs:101-108: parse_stdin, then send the message or print the error;
\* the guard is dropped at the end of the loop body.  A panic in the main
\* task ends the process.
CmdHandle(n) ==
    /\ Running(n)
    /\ pcC[n] = "locked"
    /\ LET r == parse_stdin(node[n], line[n]) IN
       /\ node' = [node EXCEPT ![n] = r.node]
       /\ outq' = [outq EXCEPT ![n] =
                      IF ~r.panic /\ r.res = "Ok" THEN Append(@, r.msg) ELSE @]
       /\ proc' = [proc EXCEPT ![n] = IF r.panic THEN "down" ELSE @]
       /\ lastC' = [lastC EXCEPT ![n] = IF r.panic THEN "panic" ELSE r.res]
    /\ lock' = guard_dropped(n)
    /\ pcC' = [pcC EXCEPT ![n] = "idle"]
    /\ line' = [line EXCEPT ![n] = NoLine]
    /\ UNCHANGED <<pcD, cur, inq, view, typed, expired, shown, lastD, test>>

(* ---- inbound dispatch task, main.rs:54-95 ---- *)

\* A dispatch task that takes the newest inbound item instead of the oldest.
DispBegin_newest_first(n) ==
    /\ proc[n] = "up"
    /\ pcD[n] = "idle"
    /\ inq[n] # <<>>
    /\ lock_acquired(n)
    /\ cur' = [cur EXCEPT ![n] = inq[n][Len(inq[n])]]
    /\ inq' = [inq EXCEPT ![n] = SubSeq(@, 1, Len(@) - 1)]
    /\ lock' = [lock EXCEPT ![n] = "disp"]
    /\ pcD' = [pcD EXCEPT ![n] = "locked"]
    /\ UNCHANGED <<node, pcC, line, outq, view, proc, typed, expired, shown,
                   lastD, lastC, test>>

\* main.rs:58-59: in_msg_receiver.select_next_some().await yields the next
\* inbound item and cloned_arc_node.lock().await gives the task the lock.
DispBegin(n) ==
    /\ proc[n] = "up"
    /\ pcD[n] = "idle"
    /\ inq[n] # <<>>
    /\ lock_acquired(n)
    /\ cur' = [cur EXCEPT ![n] = Head(inq[n])]
    /\ inq' = [inq EXCEPT ![n] = Tail(@)]
    /\ lock' = [lock EXCEPT ![n] = "disp"]
    /\ pcD' = [pcD EXCEPT ![n] = "locked"]
    /\ UNCHANGED <<node, pcC, line, outq, view, proc, typed, expired, shown,
                   lastD, lastC, test>>

\* The trial decodes of main.rs:62, 74 and 85.
IsKeyPackage(b) == "kp" \in Formats(b)

IsMlsMessage(b) == Formats(b) \cap {"commit", "app"} # {}

IsWelcome(b) == "welcome" \in Formats(b)

\* What a panic of the spawned task leaves of the process: the task alone
\* is gone, or the runtime aborts the process.
AfterDispPanic == {"nodisp", "down"}

\* A dispatch that tries the protocol message decode before the key
\* package decode.
Dispatch_message_first(s, peer, b, ok) ==
    IF IsMlsMessage(b)
    THEN LET r == parse_message(s, b) IN
         IF r.res = "Err"
         THEN [node |-> r.node, sent |-> <<>>, print |-> {}, did |-> "parse_err"]
         ELSE IF r.val # <<>>
         THEN [node |-> r.node, sent |-> <<>>, print |-> {<<peer, r.val[1]>>},
               did |-> "shown"]
         ELSE [node |-> r.node, sent |-> <<>>, print |-> {}, did |-> "nothing"]
    ELSE IF IsKeyPackage(b)
    THEN IF is_group_leader(s)
         THEN LET a == add_member_to_group(s, b, ok) IN
              IF a.panic
              THEN [node |-> a.node, sent |-> <<>>, print |-> {}, did |-> "panic"]
              ELSE [node |-> a.node, sent |-> <<a.welcome, a.m_out>>,
                    print |-> {}, did |-> "added"]
         ELSE [node |-> s, sent |-> <<>>, print |-> {}, did |-> "kp_ignored"]
    ELSE IF IsWelcome(b)
    THEN LET j == join_existing_group(s, b) IN
         [node |-> j.node, sent |-> <<>>, print |-> {},
          did |-> IF j.res = "Ok" THEN "joined" ELSE "join_err"]
    ELSE [node |-> s, sent |-> <<>>, print |-> {}, did |-> "raw"]

\* main.rs:60-93, one blob handled under the lock.  The result names the new
\* node, the items sent on cloned_out, the printed (peer, text) pairs, what
\* was done, and whether the task panicked.
Dispatch(s, peer, b, ok) ==
    IF IsKeyPackage(b)
    THEN IF is_group_leader(s)
         THEN LET a == add_member_to_group(s, b, ok) IN
              IF a.panic
              THEN [node |-> a.node, sent |-> <<>>, print |-> {}, did |-> "panic"]
              ELSE [node |-> a.node, sent |-> <<a.welcome, a.m_out>>,
                    print |-> {}, did |-> "added"]
         ELSE [node |-> s, sent |-> <<>>, print |-> {}, did |-> "kp_ignored"]
    ELSE IF IsMlsMessage(b)
    THEN LET r == parse_message(s, b) IN
         IF r.res = "Err"
         THEN [node |-> r.node, sent |-> <<>>, print |-> {}, did |-> "parse_err"]
         ELSE IF r.val # <<>>
         THEN [node |-> r.node, sent |-> <<>>, print |-> {<<peer, r.val[1]>>},
               did |-> "shown"]
         ELSE [node |-> r.node, sent |-> <<>>, print |-> {}, did |-> "nothing"]
    ELSE IF IsWelcome(b)
    THEN LET j == join_existing_group(s, b) IN
         [node |-> j.node, sent |-> <<>>, print |-> {},
          did |-> IF j.res = "Ok" THEN "joined" ELSE "join_err"]
    ELSE [node |-> s, sent |-> <<>>, print |-> {}, did |-> "raw"]

DispHandle(n) ==
    /\ proc[n] = "up"
    /\ pcD[n] = "locked"
    /\ \E ok \in (IF IsKeyPackage(cur[n][2]) /\ HasGroup(node[n])
                  THEN AddOutcomes(node[n], cur[n][2]) ELSE {TRUE}) :
       LET d == Dispatch(node[n], cur[n][1], cur[n][2], ok) IN
       /\ node' = [node EXCEPT ![n] = d.node]
       /\ outq' = [outq EXCEPT ![n] = @ \o d.sent]
       /\ shown' = [shown EXCEPT ![n] = @ \cup d.print]
       /\ lastD' = [lastD EXCEPT ![n] = d.did]
       /\ IF d.did = "panic"
          THEN \E p \in AfterDispPanic : proc' = [proc EXCEPT ![n] = p]
          ELSE proc' = proc
    /\ lock' = guard_dropped(n)
    /\ pcD' = [pcD EXCEPT ![n] = "idle"]
    /\ cur' = [cur EXCEPT ![n] = NoItem]
    /\ UNCHANGED <<pcC, line, inq, view, typed, expired, lastC, test>>

(* ---- network event loop, main.rs:119-168 ---- *)

Peers(n) == Nodes \ {n}

\* main.rs:144-148: MdnsEvent::Discovered, with the list of the peers on the
\* local network.
PeerFound(n) ==
    /\ Running(n)
    /\ view[n] # Peers(n)
    /\ view' = [view EXCEPT ![n] = Peers(n)]
    /\ UNCHANGED <<node, lock, pcD, pcC, cur, line, outq, inq, proc, typed,
                   expired, shown, lastD, lastC, test>>

\* main.rs:149-155: MdnsEvent::Expired, with a list of peers that mdns no
\* longer has.
PeerExpired(n) ==
    /\ Running(n)
    /\ view[n] # {}
    /\ typed + expired < MaxEvents
    /\ expired' = expired + 1
    /\ view' = [view EXCEPT ![n] = {}]
    /\ UNCHANGED <<node, lock, pcD, pcC, cur, line, outq, inq, proc, typed,
                   shown, lastD, lastC, test>>

\* An event loop that forwards the source without the data.
Forwarded_without_data(src, data) == <<src, EmptyMsg>>

\* The (source, data) the event loop of a peer forwards to its inbound
\* queue for a chat-topic message (main.rs:156-159).
Forwarded(src, data) == <<src, data>>

\* main.rs:163-165: an item of the outbound queue is published on the chat
\* topic; floodsub sends it to the peers of the partial view, whose event
\* loops forward it to their inbound queues (main.rs:156-159).
NetPublish(n) ==
    /\ Running(n)
    /\ outq[n] # <<>>
    /\ outq' = [outq EXCEPT ![n] = Tail(@)]
    /\ inq' = [d \in Nodes |->
                  IF d \in view[n] /\ Running(d)
                  THEN Append(inq[d], Forwarded(n, Head(outq[n])))
                  ELSE inq[d]]
    /\ UNCHANGED <<node, lock, pcD, pcC, cur, line, view, proc, typed,
                   expired, shown, lastD, lastC, test>>

Next ==
    \/ \E n \in Nodes, l \in UserLines : CmdBegin(n, l)
    \/ \E n \in Nodes : CmdHandle(n)
    \/ \E n \in Nodes : DispBegin(n)
    \/ \E n \in Nodes : DispHandle(n)
    \/ \E n \in Nodes : PeerFound(n)
    \/ \E n \in Nodes : PeerExpired(n)
    \/ \E n \in Nodes : NetPublish(n)

Spec == Init /\ [][Next]_vars

----------------------------------------------------------------------------
(* The end-to-end scenario of two mutually discovered nodes: "A" creates,  *)
(* then "B" joins, and "A" sends the text "hi bob" once its dispatcher has *)
(* admitted "B".  The third node listens.  Every task is scheduled fairly  *)
(* and every published message is delivered.                               *)

HiBob == <<"hi", " ", "bob">>

ScenInit ==
    /\ node = [n \in Nodes |-> Default(n)]
    /\ lock = [n \in Nodes |-> "free"]
    /\ pcD = [n \in Nodes |-> "idle"]
    /\ pcC = [n \in Nodes |-> "idle"]
    /\ cur = [n \in Nodes |-> NoItem]
    /\ line = [n \in Nodes |-> NoLine]
    /\ outq = [n \in Nodes |-> <<>>]
    /\ inq = [n \in Nodes |-> <<>>]
    /\ view = [n \in Nodes |-> Peers(n)]
    /\ proc = [n \in Nodes |-> "up"]
    /\ typed = 0
    /\ expired = 0
    /\ shown = [n \in Nodes |-> {}]
    /\ lastD = [n \in Nodes |-> "none"]
    /\ lastC = [n \in Nodes |-> "none"]
    /\ test = NoTest

ScenType ==
    \/ typed = 0 /\ CmdBegin("A", LineCreate)
    \/ typed = 1 /\ is_group_leader(node["A"]) /\ CmdBegin("B", LineJoin)
    \/ typed = 2 /\ "B" \in node["A"].mls_group.members
                 /\ CmdBegin("A", LineSend(HiBob))

ScenNext ==
    \/ ScenType
    \/ \E n \in Nodes : CmdHandle(n)
    \/ \E n \in Nodes : DispBegin(n)
    \/ \E n \in Nodes : DispHandle(n)
    \/ \E n \in Nodes : NetPublish(n)

ScenFair ==
    /\ WF_vars(ScenType)
    /\ \A n \in Nodes : /\ WF_vars(CmdHandle(n))
                        /\ WF_vars(DispBegin(n))
                        /\ WF_vars(DispHandle(n))
                        /\ WF_vars(NetPublish(n))

ScenSpec == ScenInit /\ [][ScenNext]_vars /\ ScenFair

----------------------------------------------------------------------------
(* The tasks under fair scheduling, with the command loop's wait for the   *)
(* lock as a step of its own: the loop takes a line (main.rs:99) and then  *)
(* waits for the Mutex (main.rs:100).  The users enter up to MaxLiveLines  *)
(* lines; the peers have discovered each other.  The executor runs every   *)
(* task that can take a step, the Mutex is eventually fair to a task that  *)
(* waits for it, and the event loop publishes what is queued.              *)

MaxLiveLines == 2

\* main.rs:99: stdin.next().await yields the next line.
LiveTake(n, l) ==
    /\ Running(n)
    /\ pcC[n] = "idle"
    /\ typed < MaxLiveLines
    /\ pcC' = [pcC EXCEPT ![n] = "waiting"]
    /\ line' = [line EXCEPT ![n] = l]
    /\ typed' = typed + 1
    /\ UNCHANGED <<node, lock, pcD, cur, outq, inq, view, proc, expired, shown,
                   lastD, lastC, test>>

\* main.rs:100: arc_node.lock().await completes.
LiveLock(n) ==
    /\ Running(n)
    /\ pcC[n] = "waiting"
    /\ lock_acquired(n)
    /\ lock' = [lock EXCEPT ![n] = "cmd"]
    /\ pcC' = [pcC EXCEPT ![n] = "locked"]
    /\ UNCHANGED <<node, pcD, cur, line, outq, inq, view, proc, typed, expired,
                   shown, lastD, lastC, test>>

LiveNext ==
    \/ \E n \in Nodes, l \in UserLines : LiveTake(n, l)
    \/ \E n \in Nodes : LiveLock(n)
    \/ \E n \in Nodes : CmdHandle(n)
    \/ \E n \in Nodes : DispBegin(n)
    \/ \E n \in Nodes : DispHandle(n)
    \/ \E n \in Nodes : NetPublish(n)

LiveFair ==
    \A n \in Nodes : /\ SF_vars(LiveLock(n))
                     /\ WF_vars(CmdHandle(n))
                     /\ SF_vars(DispBegin(n))
                     /\ WF_vars(DispHandle(n))
                     /\ WF_vars(NetPublish(n))

LiveSpec == ScenInit /\ [][LiveNext]_vars /\ LiveFair

----------------------------------------------------------------------------
(* The dispatch task on one inbound item of any content: node "A" is new,  *)
(* or a leader, or a member of the group of "B", and the item holds bytes  *)
(* that deserialize as any combination of the three formats.  test.msg_out *)
(* keeps the bytes of the item.                                            *)

Receiver == "A"

\* The states of the receiver: after Default, after create, and after
\* joining from the welcome of a leader that admitted it.
SniffStates ==
    LET leader == join_new_group(Default("B")).node
        w == add_member_to_group(leader, get_key_package(Default(Receiver)),
                                 TRUE).welcome
    IN { Default(Receiver),
         join_new_group(Default(Receiver)).node,
         join_existing_group(Default(Receiver), w).node }

SniffKinds ==
    {"kp", "commit", "app", "welcome", "raw",
     "kp+app", "kp+welcome", "app+welcome", "all"}

SniffBlobs ==
    { Blob(k, i, e, w, {i, w}, <<"hi">>) :
        k \in SniffKinds, i \in {"A", "B"}, e \in {0, 1}, w \in {"A", "C"} }

SniffInit ==
    /\ \E s \in SniffStates : node = [n \in Nodes |->
                                        IF n = Receiver THEN s ELSE Default(n)]
    /\ lock = [n \in Nodes |-> "free"]
    /\ pcD = [n \in Nodes |-> "idle"]
    /\ pcC = [n \in Nodes |-> "idle"]
    /\ cur = [n \in Nodes |-> NoItem]
    /\ line = [n \in Nodes |-> NoLine]
    /\ outq = [n \in Nodes |-> <<>>]
    /\ \E b \in SniffBlobs :
          /\ inq = [n \in Nodes |->
                      IF n = Receiver THEN << <<"B", b>> >> ELSE <<>>]
          /\ test = [NoTest EXCEPT !.pc = "sniff", !.msg_out = b]
    /\ view = [n \in Nodes |-> {}]
    /\ proc = [n \in Nodes |-> "up"]
    /\ typed = 0
    /\ expired = 0
    /\ shown = [n \in Nodes |-> {}]
    /\ lastD = [n \in Nodes |-> "none"]
    /\ lastC = [n \in Nodes |-> "none"]

SniffNext ==
    \/ \E n \in Nodes : DispBegin(n)
    \/ \E n \in Nodes : DispHandle(n)

SniffSpec == SniffInit /\ [][SniffNext]_vars

----------------------------------------------------------------------------
(* The tasks with the two sends of an admission (main.rs:67-68) as steps   *)
(* of their own: each send is an await, at which the other tasks of the    *)
(* process may run.  After the first send the dispatch task is at          *)
(* "sending" and cur holds the peer and the serialized commit it is about  *)
(* to send.  The peers have discovered each other.                         *)

\* main.rs:60-67 and, for every blob that is not the key package of an
\* admission, main.rs:60-94: the blob is handled; for an admission the
\* welcome is sent and the commit is kept for the second send.
SendFirst(n) ==
    /\ proc[n] = "up"
    /\ pcD[n] = "locked"
    /\ \E ok \in (IF IsKeyPackage(cur[n][2]) /\ HasGroup(node[n])
                  THEN AddOutcomes(node[n], cur[n][2]) ELSE {TRUE}) :
       LET d == Dispatch(node[n], cur[n][1], cur[n][2], ok) IN
       /\ node' = [node EXCEPT ![n] = d.node]
       /\ shown' = [shown EXCEPT ![n] = @ \cup d.print]
       /\ lastD' = [lastD EXCEPT ![n] = d.did]
       /\ IF d.did = "panic"
          THEN \E p \in AfterDispPanic : proc' = [proc EXCEPT ![n] = p]
          ELSE proc' = proc
       /\ IF d.did = "added"
          THEN /\ outq' = [outq EXCEPT ![n] = Append(@, d.sent[1])]
               /\ cur' = [cur EXCEPT ![n] = <<cur[n][1], d.sent[2]>>]
               /\ pcD' = [pcD EXCEPT ![n] = "sending"]
               /\ lock' = lock
          ELSE /\ outq' = [outq EXCEPT ![n] = @ \o d.sent]
               /\ cur' = [cur EXCEPT ![n] = NoItem]
               /\ pcD' = [pcD EXCEPT ![n] = "idle"]
               /\ lock' = guard_dropped(n)
    /\ UNCHANGED <<pcC, line, inq, view, typed, expired, lastC, test>>

\* main.rs:68-94: the commit is sent and the guard is dropped.
SendSecond(n) ==
    /\ proc[n] = "up"
    /\ pcD[n] = "sending"
    /\ outq' = [outq EXCEPT ![n] = Append(@, cur[n][2])]
    /\ cur' = [cur EXCEPT ![n] = NoItem]
    /\ pcD' = [pcD EXCEPT ![n] = "idle"]
    /\ lock' = guard_dropped(n)
    /\ UNCHANGED <<node, pcC, line, inq, view, proc, typed, expired, shown,
                   lastD, lastC, test>>

SendNext ==
    \/ \E n \in Nodes, l \in UserLines : CmdBegin(n, l)
    \/ \E n \in Nodes : CmdHandle(n)
    \/ \E n \in Nodes : DispBegin(n)
    \/ \E n \in Nodes : SendFirst(n)
    \/ \E n \in Nodes : SendSecond(n)
    \/ \E n \in Nodes : NetPublish(n)

SendSpec == ScenInit /\ [][SendNext]_vars

----------------------------------------------------------------------------
(* tests::smoke_test (node.rs:141-158), for any two nodes as alice and bob *)
(* and any text.  Besides the calls of the test, alice may admit the third *)
(* node once, before or after bob, and bob may then process that commit.   *)

Carol == CHOOSE c \in Nodes : c \notin {test.alice, test.bob}

TestInit ==
    /\ node = [n \in Nodes |-> Default(n)]
    /\ lock = [n \in Nodes |-> "free"]
    /\ pcD = [n \in Nodes |-> "idle"]
    /\ pcC = [n \in Nodes |-> "idle"]
    /\ cur = [n \in Nodes |-> NoItem]
    /\ line = [n \in Nodes |-> NoLine]
    /\ outq = [n \in Nodes |-> <<>>]
    /\ inq = [n \in Nodes |-> <<>>]
    /\ view = [n \in Nodes |-> {}]
    /\ proc = [n \in Nodes |-> "up"]
    /\ typed = 0
    /\ expired = 0
    /\ shown = [n \in Nodes |-> {}]
    /\ lastD = [n \in Nodes |-> "none"]
    /\ lastC = [n \in Nodes |-> "none"]
    /\ \E a \in Nodes : \E b \in Nodes \ {a} : \E t \in Texts :
          test = [NoTest EXCEPT !.pc = "start", !.alice = a, !.bob = b,
                                !.text = t]

TestFrame ==
    UNCHANGED <<lock, pcD, pcC, cur, line, outq, inq, view, proc, typed,
                expired, shown, lastD, lastC>>

\* node.rs:143-144
TestCreate ==
    /\ test.pc = "start"
    /\ node' = [node EXCEPT ![test.alice] = join_new_group(@).node]
    /\ test' = [test EXCEPT !.pc = "created"]
    /\ TestFrame

\* alice.add_member_to_group(carol.get_key_package())
TestAddOther ==
    /\ test.pc \in {"created", "joined"}
    /\ test.other = "none"
    /\ LET a == add_member_to_group(node[test.alice],
                                    get_key_package(node[Carol]), TRUE) IN
       /\ node' = [node EXCEPT ![test.alice] = a.node]
       /\ test' = [test EXCEPT !.commit = a.m_out,
                     !.other = IF test.pc = "created" THEN "before" ELSE "after"]
    /\ TestFrame

\* node.rs:145-149
TestAddBob ==
    /\ test.pc = "created"
    /\ LET a == add_member_to_group(node[test.alice],
                                    get_key_package(node[test.bob]), TRUE) IN
       /\ node' = [node EXCEPT ![test.alice] = a.node]
       /\ test' = [test EXCEPT !.pc = "added", !.welcome = a.welcome]
    /\ TestFrame

\* node.rs:151
TestJoin ==
    /\ test.pc = "added"
    /\ node' = [node EXCEPT ![test.bob] = join_existing_group(@, test.welcome).node]
    /\ test' = [test EXCEPT !.pc = "joined"]
    /\ TestFrame

\* bob.parse_message(commit) for the commit that admitted the third node
TestMerge ==
    /\ test.pc \in {"joined", "sent"}
    /\ test.other = "after"
    /\ node' = [node EXCEPT ![test.bob] = parse_message(@, test.commit).node]
    /\ test' = [test EXCEPT !.other = "merged"]
    /\ TestFrame

\* node.rs:152
TestSend ==
    /\ test.pc = "joined"
    /\ test' = [test EXCEPT !.pc = "sent",
                  !.msg_out = create_message(node[test.alice], test.text).out]
    /\ UNCHANGED node
    /\ TestFrame

\* node.rs:153-156
TestReceive ==
    /\ test.pc = "sent"
    /\ LET r == parse_message(node[test.bob], test.msg_out) IN
       /\ node' = [node EXCEPT ![test.bob] = r.node]
       /\ test' = [test EXCEPT !.pc = "done", !.res = r.res, !.msg = r.val]
    /\ TestFrame

TestNext ==
    \/ TestCreate
    \/ TestAddOther
    \/ TestAddBob
    \/ TestJoin
    \/ TestMerge
    \/ TestSend
    \/ TestReceive

TestSpec == TestInit /\ [][TestNext]_vars

----------------------------------------------------------------------------
(* Properties *)

\* The step in which the dispatch task of n handles its blob and releases
\* the lock, and the step in which the command loop of n handles its line.
DispStep(n) == pcD[n] = "locked" /\ pcD'[n] = "idle"

CmdStep(n) == pcC[n] = "locked" /\ pcC'[n] = "idle"

Blob_(n) == cur[n][2]

\* C1: in every reachable state, a node whose is_group_leader flag is set
\* has a group.
C1_LeaderHasGroup ==
    \A n \in Nodes : node[n].is_group_leader => node[n].mls_group # NoGroup

\* A leader that has admitted a member and whose dispatcher has since
\* handled a welcome is still a leader with a group.
C1_Witness ==
    \E n \in Nodes : /\ node[n].is_group_leader
                     /\ node[n].mls_group.epoch >= 1
                     /\ lastD[n] = "join_err"

\* C2: in the scenario, under fair scheduling, B eventually joins the group
\* of A from A's welcome and eventually displays exactly "hi bob" from A.
C2_Scenario ==
    /\ <>(lastD["B"] = "joined" /\ node["B"].mls_group.inst = "A")
    /\ <>(shown["B"] = {<<"A", HiBob>>})

\* C3: when the test is done and bob has processed every commit alice made
\* after admitting him, bob's parse_message of alice's message returned
\* exactly the text alice passed to create_message.
C3_RoundTrip ==
    (test.pc = "done" /\ test.other # "after")
        => (test.res = "Ok" /\ test.msg = <<test.text>>)

\* The test ended for the text with a space, after alice admitted a third
\* node and bob merged that commit, with the text returned.
C3_Witness ==
    /\ test.pc = "done"
    /\ test.other = "merged"
    /\ test.text = HiBob
    /\ node[test.bob].mls_group.epoch = 2
    /\ test.msg = <<HiBob>>

SendLines == {LineSend(t) : t \in Texts}

C6_NoGroupIgnoresMessages ==
    [][\A n \in Nodes :
        (DispStep(n) /\ IsMlsMessage(Blob_(n)) /\ node[n].mls_group = NoGroup)
        => /\ lastD'[n] = "nothing"
           /\ node'[n] = node[n]
           /\ shown'[n] = shown[n]
           /\ outq'[n] = outq[n]
           /\ proc'[n] = proc[n]]_vars

\* A node without a group has handled a protocol message.
C6_Witness ==
    \E n \in Nodes : /\ lastD[n] = "nothing"
                     /\ node[n] = Default(n)
                     /\ shown[n] = {}

\* C7: when the dispatcher of a node that is not leader handles a key
\* package, the node is unchanged and nothing is pushed onto the outbound
\* queue.
C7_NonLeaderIgnoresKeyPackage ==
    [][\A n \in Nodes :
        (DispStep(n) /\ IsKeyPackage(Blob_(n)) /\ ~node[n].is_group_leader)
        => /\ node'[n] = node[n]
           /\ outq'[n] = outq[n]
           /\ proc'[n] = proc[n]]_vars

\* A member that is not leader has handled a key package, and so has a node
\* without a group.
C7_Witness ==
    /\ \E n \in Nodes : /\ lastD[n] = "kp_ignored"
                        /\ node[n].mls_group # NoGroup
                        /\ ~node[n].is_group_leader
    /\ \E n \in Nodes : /\ lastD[n] = "kp_ignored"
                        /\ node[n].mls_group = NoGroup

\* C8: handling a create line pushes no item onto the outbound queue.
C8_CreatePushesNothing ==
    [][\A n \in Nodes :
        (CmdStep(n) /\ line[n] = LineCreate) => outq'[n] = outq[n]]_vars

\* C9: when join_existing_group fails, the dispatcher reports the error and
\* keeps running, and the node is exactly what it was.
C9_FailedJoinKeepsState ==
    [][\A n \in Nodes :
        (/\ DispStep(n)
         /\ IsWelcome(Blob_(n))
         /\ \/ Blob_(n).who # node[n].identity
            \/ ~node[n].key_store)
        => /\ lastD'[n] = "join_err"
           /\ node'[n] = node[n]
           /\ proc'[n] = proc[n]]_vars

\* A leader and a node without a group have both handled a welcome that
\* failed.
C9_Witness ==
    /\ \E n \in Nodes : /\ lastD[n] = "join_err"
                        /\ node[n].is_group_leader
    /\ \E n \in Nodes : /\ lastD[n] = "join_err"
                        /\ node[n].mls_group = NoGroup

\* A member has handled a welcome that failed.
C9_MemberCase ==
    \E n \in Nodes : /\ lastD[n] = "join_err"
                     /\ node[n].mls_group # NoGroup
                     /\ ~node[n].is_group_leader

\* C10: is_group_leader changes from false to true only in the step that
\* handles a create line, and after every successful join_existing_group
\* the node has a group and is not leader.
C10_LeaderOnlyByCreate ==
    [][\A n \in Nodes :
        /\ (~node[n].is_group_leader /\ node'[n].is_group_leader)
              => (CmdStep(n) /\ line[n] = LineCreate)
        /\ (DispStep(n) /\ lastD'[n] = "joined")
              => (node'[n].mls_group # NoGroup /\ ~node'[n].is_group_leader)]_vars

\* A node has joined the group of a leader and is not leader itself.
C10_Witness ==
    \E n \in Nodes, m \in Nodes :
        /\ lastD[n] = "joined"
        /\ ~node[n].is_group_leader
        /\ node[n].mls_group.inst = m
        /\ node[m].is_group_leader

C11_SecondCreate ==
    \E n \in Nodes : lastC[n] = "panic" /\ node[n].mls_group.inst = n

\* The tasks of n that are inside the scope of a guard of the Mutex.
Holders(n) ==
    (IF pcD[n] = "locked" THEN {"disp"} ELSE {}) \cup
    (IF pcC[n] = "locked" THEN {"cmd"} ELSE {})

\* C12: in every reachable state at most one of the dispatch task and the
\* command loop is inside the scope of a guard, and the Mutex records that
\* task as its holder; and every step that runs an operation of the node
\* (changes the node or reports an outcome of the dispatch task or of the
\* command loop) is taken by a task that holds the lock, while the other
\* task does not.
C12_MutualExclusion ==
    /\ [](\A n \in Nodes :
            /\ Cardinality(Holders(n)) <= 1
            /\ Holders(n) = IF lock[n] = "free" THEN {} ELSE {lock[n]})
    /\ [][\A n \in Nodes :
            (node'[n] # node[n] \/ lastD'[n] # lastD[n] \/ lastC'[n] # lastC[n])
            => \/ DispStep(n) /\ lock[n] = "disp" /\ pcC[n] # "locked"
               \/ CmdStep(n) /\ lock[n] = "cmd" /\ pcD[n] # "locked"]_vars

\* The command loop holds the lock while an inbound item waits for the
\* dispatch task, which has handled an item under the lock before.
C12_Witness ==
    \E n \in Nodes : /\ lock[n] = "cmd"
                     /\ pcC[n] = "locked"
                     /\ inq[n] # <<>>
                     /\ pcD[n] = "idle"
                     /\ lastD[n] # "none"

\* C13: a task that holds the lock can always take its next step, whatever
\* the other tasks do (it waits for nothing while it holds the lock); every
\* acquired lock is eventually released; and a task of a running process
\* that waits for the lock (the command loop with a line taken, the
\* dispatch task with an inbound item to take) eventually gets it.
C13_DeadlockFree ==
    /\ [](\A n \in Nodes :
            /\ pcC[n] = "locked" => ENABLED CmdHandle(n)
            /\ pcD[n] = "locked" => ENABLED DispHandle(n))
    /\ \A n \in Nodes :
        /\ (lock[n] # "free") ~> (lock[n] = "free")
        /\ (pcC[n] = "waiting" /\ Running(n))
              ~> (pcC[n] = "locked" \/ ~Running(n))
        /\ (pcD[n] = "idle" /\ inq[n] # <<>> /\ proc[n] = "up")
              ~> (pcD[n] = "locked" \/ proc[n] # "up")

\* The command loop has taken a line and waits for the lock while the
\* dispatch task is in its loop body.
C13_Witness ==
    \E n \in Nodes : /\ pcC[n] = "waiting"
                     /\ lock[n] = "disp"
                     /\ pcD[n] = "locked"

\* An inbound item is queued for the dispatch task while the command loop
\* is in its loop body.
C13_DispatcherWaits ==
    \E n \in Nodes : /\ pcD[n] = "idle"
                     /\ inq[n] # <<>>
                     /\ lock[n] = "cmd"

\* q2 is q1 with one or more items added at the tail.
Extends(q1, q2) ==
    /\ Len(q2) > Len(q1)
    /\ SubSeq(q2, 1, Len(q1)) = q1

\* C14: every step that changes the outbound queue of a node either adds
\* items at its tail or removes its oldest item, and that item is what every
\* peer of the partial view is sent; every step that changes the inbound
\* queue either adds one item at its tail or removes its oldest item, and
\* that item is the one the dispatch task handles next.
C14_Fifo ==
    [][\A n \in Nodes :
        /\ outq'[n] # outq[n]
           => \/ Extends(outq[n], outq'[n])
              \/ /\ outq[n] # <<>>
                 /\ outq'[n] = Tail(outq[n])
                 /\ \A d \in view[n] :
                       Running(d) =>
                         inq'[d] = Append(inq[d], <<n, Head(outq[n])>>)
        /\ inq'[n] # inq[n]
           => \/ Extends(inq[n], inq'[n]) /\ Len(inq'[n]) = Len(inq[n]) + 1
              \/ /\ inq[n] # <<>>
                 /\ inq'[n] = Tail(inq[n])
                 /\ cur'[n] = Head(inq[n])
                 /\ pcD'[n] = "locked"]_vars

\* The dispatch task of a node has taken a welcome and the commit of the
\* same admission is the next inbound item: the two items arrive in the
\* order in which the leader enqueued them.
C14_Witness ==
    \E n \in Nodes : /\ pcD[n] = "locked"
                     /\ cur[n][2].kind = "welcome"
                     /\ inq[n] # <<>>
                     /\ Head(inq[n])[2].kind = "commit"
                     /\ Head(inq[n])[1] = cur[n][1]

\* The leader n admitted the sender of the key package it handled: its
\* group is one epoch further and has the new member, its flag is kept, and
\* exactly the welcome (for the new member, at the new epoch) and the commit
\* (made at the old epoch) were added to the outbound queue.
Admitted(n) ==
    LET g == node[n].mls_group
        kp == Blob_(n)
    IN /\ lastD'[n] = "added"
       /\ node'[n].mls_group =
             [g EXCEPT !.epoch = g.epoch + 1, !.members = g.members \cup {kp.who}]
       /\ node'[n].is_group_leader
       /\ outq'[n] = outq[n] \o
             << Blob("welcome", g.inst, g.epoch + 1, kp.who,
                     g.members \cup {kp.who}, <<>>),
                Blob("commit", g.inst, g.epoch, kp.who, {}, <<>>) >>
       /\ proc'[n] = proc[n]

\* C15 as stated: whenever the dispatch task of a leader handles a key
\* package, the leader admits its sender.
C15_LeaderAdmits ==
    [][\A n \in Nodes :
        (DispStep(n) /\ IsKeyPackage(Blob_(n)) /\ node[n].is_group_leader)
        => Admitted(n)]_vars

\* C15, amended: when the dispatch task of a leader handles a key package,
\* either the leader admits its sender, or, and only for a key package of a
\* node that is a member already, add_members is refused: the task panics,
\* the node is unchanged and nothing is pushed onto the outbound queue.
C15_LeaderAdmitsUnlessRefused ==
    [][\A n \in Nodes :
        (DispStep(n) /\ IsKeyPackage(Blob_(n)) /\ node[n].is_group_leader)
        => \/ Admitted(n)
           \/ /\ Blob_(n).who \in node[n].mls_group.members
              /\ lastD'[n] = "panic"
              /\ node'[n] = node[n]
              /\ outq'[n] = outq[n]
              /\ proc'[n] \in AfterDispPanic]_vars

\* A leader has admitted a member: it is at epoch 1 and the welcome and the
\* commit are the two newest items of its outbound queue.
C15_Witness ==
    \E n \in Nodes :
        LET k == Len(outq[n]) IN
        /\ lastD[n] = "added"
        /\ node[n].mls_group.epoch = 1
        /\ k >= 2
        /\ outq[n][k - 1].kind = "welcome"
        /\ outq[n][k].kind = "commit"

\* The dispatch task of a leader has panicked on the key package of a
\* member.
C15_Refused ==
    \E n \in Nodes : /\ lastD[n] = "panic"
                     /\ node[n].is_group_leader
                     /\ proc[n] # "up"

\* C16: the dispatch task handles a blob by the first of key package,
\* protocol message and welcome that the blob deserializes as, and by that
\* one alone: the outcome is one of that handler's; a key package on a node
\* that is not leader changes nothing; a blob of no format is only printed,
\* with the node and the outbound queue unchanged.
C16_OneHandlerByPriority ==
    [][\A n \in Nodes :
        DispStep(n) =>
        LET f == Formats(Blob_(n)) IN
        /\ "kp" \in f
           => /\ lastD'[n] \in {"added", "kp_ignored", "panic"}
              /\ ~node[n].is_group_leader
                 => lastD'[n] = "kp_ignored" /\ node'[n] = node[n]
                    /\ outq'[n] = outq[n] /\ shown'[n] = shown[n]
        /\ ("kp" \notin f /\ f \cap {"commit", "app"} # {})
           => /\ lastD'[n] \in {"parse_err", "shown", "nothing"}
              /\ node'[n].is_group_leader = node[n].is_group_leader
              /\ node'[n].mls_group.inst = node[n].mls_group.inst
        /\ f = {"welcome"} => lastD'[n] \in {"joined", "join_err"}
        /\ f = {}
           => /\ lastD'[n] = "raw"
              /\ node'[n] = node[n]
              /\ outq'[n] = outq[n]
              /\ shown'[n] = shown[n]]_vars

\* A member at the epoch of a blob that deserializes as a key package and
\* as a protocol message of its group has handled it as a key package: it
\* is still at that epoch and has displayed nothing.
C16_Witness ==
    /\ test.msg_out.kind = "kp+app"
    /\ test.msg_out.inst = "B"
    /\ test.msg_out.epoch = 1
    /\ lastD[Receiver] = "kp_ignored"
    /\ node[Receiver].mls_group.inst = "B"
    /\ node[Receiver].mls_group.epoch = 1
    /\ shown[Receiver] = {}

\* C17: when the dispatch task of a node with a group handles a protocol
\* message of the node's group instance and epoch, then for a commit the
\* node's group is one epoch further (the epoch after the one the commit
\* was made at, which the committer has reached) with the added member,
\* nothing is displayed or enqueued and the outcome is "nothing"; for an
\* application message the node is unchanged, nothing is enqueued and the
\* text is displayed with the sending peer.
C17_CommitMergedAppKeepsGroup ==
    [][\A n \in Nodes :
        LET b == Blob_(n)
            g == node[n].mls_group
        IN (/\ DispStep(n)
            /\ IsMlsMessage(b)
            /\ g # NoGroup
            /\ b.inst = g.inst
            /\ b.epoch = g.epoch)
           => /\ outq'[n] = outq[n]
              /\ proc'[n] = proc[n]
              /\ IF b.kind = "commit"
                 THEN /\ lastD'[n] = "nothing"
                      /\ node'[n] = [node[n] EXCEPT !.mls_group =
                                       [g EXCEPT !.epoch = b.epoch + 1,
                                                 !.members = g.members \cup {b.who}]]
                      /\ node'[n].mls_group.epoch <= node[b.inst].mls_group.epoch
                      /\ shown'[n] = shown[n]
                 ELSE /\ lastD'[n] = "shown"
                      /\ node'[n] = node[n]
                      /\ shown'[n] = shown[n] \cup {<<cur[n][1], b.text>>}]_vars

\* A member has merged the commit that admitted a third node: it is at
\* epoch 2, as the leader is, in a group of three, and has displayed
\* nothing.
C17_Witness ==
    \E n \in Nodes : \E m \in Nodes \ {n} :
        /\ lastD[n] = "nothing"
        /\ ~node[n].is_group_leader
        /\ node[n].mls_group = node[m].mls_group
        /\ node[n].mls_group.epoch = 2
        /\ node[n].mls_group.members = Nodes
        /\ node[m].is_group_leader
        /\ shown[n] = {}

\* A member has displayed an application message of its leader and is at
\* the epoch at which it joined.
C17_AppCase ==
    \E n \in Nodes : /\ lastD[n] = "shown"
                     /\ node[n].mls_group.epoch = 1
                     /\ shown[n] = {<<node[n].mls_group.inst, <<"hi">>>>}

\* A step of the network event loop of some node: a partial view changes,
\* an outbound item is taken, or an inbound item is forwarded.
NetStep ==
    \/ view' # view
    \/ \E n \in Nodes : Len(outq'[n]) < Len(outq[n])
    \/ \E n \in Nodes : Len(inq'[n]) > Len(inq[n])

\* C18: a step of the network event loop leaves every node (group,
\* is_group_leader, identity) and the lock unchanged, and what it takes from
\* the outbound queue of n is what it hands, with n as the source, to the
\* inbound queue of every running peer of the partial view of n, and to
\* no other node.
C18_NetworkMovesBytesOnly ==
    [][NetStep =>
        /\ node' = node
        /\ lock' = lock
        /\ shown' = shown
        /\ \A n \in Nodes :
              Len(outq'[n]) < Len(outq[n])
              => \A d \in Nodes :
                    inq'[d] = IF d \in view[n] /\ Running(d)
                              THEN Append(inq[d], <<n, Head(outq[n])>>)
                              ELSE inq[d]]_vars

\* After a peer-expired event, the key package a node announced is the
\* next inbound item of a peer, with the node as its source.
C18_Witness ==
    /\ expired >= 1
    /\ \E n \in Nodes : \E d \in Nodes \ {n} :
          /\ inq[d] # <<>>
          /\ Head(inq[d]) = <<n, get_key_package(node[n])>>

\* The serialized key package of node n, a value of n alone.
KeyPackageOf(n) == Blob("kp", NoNode, 0, n, {}, <<>>)

\* C19: the identity of a node never changes, and when the command loop
\* handles a join line the node is unchanged and exactly one item, the key
\* package of the node, which is the same for every join of that node, is
\* pushed onto the outbound queue.
C19_JoinAnnouncesKeyPackage ==
    /\ [](\A n \in Nodes : node[n].identity = n)
    /\ [][\A n \in Nodes :
            (CmdStep(n) /\ line[n] = LineJoin)
            => /\ node'[n] = node[n]
               /\ outq'[n] = Append(outq[n], KeyPackageOf(n))
               /\ lastC'[n] = "Ok"
               /\ proc'[n] = proc[n]]_vars

\* A leader has entered join after create: the key package is the newest
\* item of its outbound queue and the node is still the leader of its
\* group.
C19_Witness ==
    \E n \in Nodes :
        /\ node[n].is_group_leader
        /\ node[n].mls_group.inst = n
        /\ lastC[n] = "Ok"
        /\ outq[n] # <<>>
        /\ outq[n][Len(outq[n])] = KeyPackageOf(n)

\* A node has entered join twice: the two items are equal.
C19_SameKeyPackage ==
    \E n \in Nodes : /\ Len(outq[n]) = 2
                     /\ outq[n][1] = KeyPackageOf(n)
                     /\ outq[n][2] = outq[n][1]

\* The dispatch task of n is about to call add_member_to_group: it holds
\* the lock with a key package and is_group_leader answers true.
CallsAddMember(n) ==
    /\ pcD[n] = "locked"
    /\ IsKeyPackage(Blob_(n))
    /\ is_group_leader(node[n])

\* C20: in every reachable state in which the dispatch task calls
\* add_member_to_group the node has a group, and when the call panics it
\* is add_members refusing a node that is a member already, not the
\* expectation of a group.
C20_AddMemberHasGroup ==
    /\ [](\A n \in Nodes : CallsAddMember(n) => node[n].mls_group # NoGroup)
    /\ [][\A n \in Nodes :
            (DispStep(n) /\ CallsAddMember(n) /\ lastD'[n] = "panic")
            => Blob_(n).who \in node[n].mls_group.members]_vars

\* The dispatch task of a leader has called add_member_to_group twice and
\* still runs.
C20_Witness ==
    \E n \in Nodes : /\ lastD[n] = "added"
                     /\ node[n].is_group_leader
                     /\ node[n].mls_group.epoch = 2
                     /\ proc[n] = "up"

\* The commit that belongs to the welcome w: made at the epoch before the
\* one w admits into, for the same node.
CommitOf(w) == Blob("commit", w.inst, w.epoch - 1, w.who, {}, <<>>)

\* C21: in the outbound queue of every node, every welcome is directly
\* followed by the commit of the same admission, or is the newest item
\* while the dispatch task, holding the lock, is about to send that commit;
\* and the epochs of the commits and application messages do not decrease
\* along the queue.
C21_WelcomeThenCommit ==
    \A n \in Nodes :
        LET q == outq[n] IN
        /\ \A i \in 1..Len(q) :
              q[i].kind = "welcome"
              => IF i < Len(q)
                 THEN q[i + 1] = CommitOf(q[i])
                 ELSE /\ pcD[n] = "sending"
                      /\ lock[n] = "disp"
                      /\ cur[n][2] = CommitOf(q[i])
        /\ \A i \in 1..Len(q) : \A j \in i..Len(q) :
              (q[i].kind \in {"commit", "app"} /\ q[j].kind \in {"commit", "app"})
              => q[i].epoch <= q[j].epoch

\* The outbound queue of a leader ends with the welcome and the commit of
\* an admission and then the application message of a send line entered
\* while the admission was handled, one epoch later than the commit.
C21_Witness ==
    \E n \in Nodes :
        LET q == outq[n]
            k == Len(outq[n])
        IN /\ k >= 3
           /\ q[k - 2].kind = "welcome"
           /\ q[k - 1] = CommitOf(q[k - 2])
           /\ q[k].kind = "app"
           /\ q[k].epoch = q[k - 1].epoch + 1

\* The dispatch task of a leader is between its two sends.
C21_BetweenSends ==
    \E n \in Nodes : /\ pcD[n] = "sending"
                     /\ outq[n] # <<>>
                     /\ outq[n][Len(outq[n])].kind = "welcome"

\* C22: in every reachable state, two nodes that have handles of the same
\* group instance are not both leaders, and a leader's handle is of the
\* instance that the leader itself created.
C22_OneLeaderPerInstance ==
    /\ \A n \in Nodes : \A m \in Nodes \ {n} :
          (/\ node[n].mls_group # NoGroup
           /\ node[m].mls_group # NoGroup
           /\ node[n].mls_group.inst = node[m].mls_group.inst)
          => ~(node[n].is_group_leader /\ node[m].is_group_leader)
    /\ \A n \in Nodes :
          node[n].is_group_leader => node[n].mls_group.inst = node[n].identity

\* Two nodes lead the instances they created, and the third node has
\* joined one of them from its welcome and is not a leader.
C22_Witness ==
    \E n \in Nodes : \E m \in Nodes \ {n} : \E k \in Nodes \ {n, m} :
        /\ node[n].is_group_leader /\ node[n].mls_group.inst = n
        /\ node[m].is_group_leader /\ node[m].mls_group.inst = m
        /\ lastD[k] \in {"joined", "join_err", "parse_err"}
        /\ node[k].mls_group.inst = n
        /\ k \in node[n].mls_group.members
        /\ ~node[k].is_group_leader

====
